---- MODULE Spec2Model ----
(***************************************************************************)
(* Order settlement of the book store: CreateOrder, ProcessPayment and     *)
(* UpdateOrderStatus of internal/service/order_service.go over the         *)
(* PostgreSQL store reached through the repositories (READ COMMITTED:      *)
(* a statement outside a transaction sees committed rows only, an UPDATE   *)
(* inside a transaction keeps a row lock until that transaction ends).     *)
(***************************************************************************)
EXTENDS Integers, Sequences, FiniteSets, TLC

(* ---- bounds ---- *)
NumCalls == 2
NumPayers == 2
MaxStock == 2
MaxQty == 2
NumGates == 2
MaxWindow == 6

(* ---- catalog, users, inputs ---- *)
Books == {1, 2}
UnknownBook == 3
Calls == 1 .. NumCalls
Payers == 1 .. NumPayers
NoCall == 0
NoOrder == 0
NoURL == 0

\* prices are fixed-point amounts with two decimals: 25.99 is 2599
Scale == 100
NoAmount == -1

\* entity.Book.Price, in cents
Price(b) == IF b = 1 THEN 2599 ELSE 3550

NoUser == 0
\* helpers.ValidateToken + userRepo.GetByID: the user a token resolves to
UserOf(tok) ==
  CASE tok = "alice" -> 1
    [] tok = "bob" -> 2
    [] tok = "admin" -> 3
    [] OTHER -> NoUser
\* every user taken for an admin
Role_AllAdmin(u) == "admin"

\* entity.User.Role of the users the test client registers
Role(u) == IF u = 3 THEN "admin" ELSE "user"

Item(b, q) == [bookID |-> b, quantity |-> q]
Requests ==
  {<<>>, <<Item(1, 0)>>, <<Item(UnknownBook, 1)>>, <<Item(2, 1)>>}
    \cup {<<Item(1, q)>> : q \in 1 .. MaxQty}
    \cup {<<Item(1, 1), Item(2, 1)>>, <<Item(2, 1), Item(1, 1)>>,
          <<Item(1, 1), Item(1, 1)>>}

Outcomes == {"ok", "err"}
\* outcomes of the two reads of a validation iteration
ReadOutcomes == {"ok", "get_failed", "check_failed"}

\* concurrent callers of CreatePayment at the payment breaker
Gates == 1 .. NumGates
\* gobreaker.Counts of a new generation
NoCounts == [requests |-> 0, totalFailures |-> 0, consecutiveSuccesses |-> 0]
\* a caller outside CreatePayment, before its first call
IdleCall == [pc |-> "idle", stale |-> FALSE, contacted |-> FALSE,
             result |-> "none"]

VARIABLES
  books,        \* books table, committed: bookID -> [stock, price]
  orders,       \* orders table with its order_items, committed: id -> row
  stockMutex,   \* orderServiceImpl.stockMutex: NoCall or the call holding it
  stock0,       \* the stock each book started with
  pc,           \* CreateOrder: position of each call
  items,        \* CreateOrder: the request
  user,         \* CreateOrder: user.ID resolved from the token
  idx,          \* CreateOrder: index of the line the current loop is at
  orderItems,   \* CreateOrder: orderItems built by the validation loop
  totalAmount,  \* CreateOrder: totalAmount
  orderID,      \* CreateOrder: order.ID set by CreateOrderTx
  txOrder,      \* CreateOrder: rows written by CreateOrderTx in the open tx
  txStock,      \* CreateOrder: stock values written by UpdateStockTx in the open tx
  bookStock,    \* CreateOrder: book.Stock read at line 128
  err,          \* CreateOrder: error returned by the transaction function
  result,       \* CreateOrder: what the call returned
  payPc,        \* ProcessPayment: position of each call
  payOrder,     \* ProcessPayment: orderID argument
  payUser,      \* ProcessPayment: user.ID resolved from the token
  payURL,       \* ProcessPayment: paymentURL returned by CreatePayment
  payTx,        \* ProcessPayment: columns of the order row written in the open tx
  payErr,       \* ProcessPayment: error returned by the transaction function
  payResult,    \* ProcessPayment: what the call returned
  gateway,      \* ProcessPayment: outcome of the call's gateway request, if made
  statusResult, \* UpdateOrderStatus: what the latest call returned
  grossAmt,     \* CreatePayment: TransactionDetails.GrossAmt of the call's request
  cbState,      \* PaymentCircuitBreaker: closed, open or half-open
  cbCounts,     \* PaymentCircuitBreaker: gobreaker.Counts of the generation
  gateCall      \* CreatePayment calls in ExecuteWithCircuitBreaker, per caller

dbVars == <<books, orders>>
payVars == <<payPc, payOrder, payUser, payURL, payTx, payErr, payResult,
             gateway>>
cbVars == <<cbState, cbCounts, gateCall>>
gateVars == <<grossAmt, cbState, cbCounts, gateCall>>
vars == <<books, orders, stockMutex, stock0, pc, items, user, idx,
          orderItems, totalAmount, orderID, txOrder, txStock, bookStock, err,
          result, payPc, payOrder, payUser, payURL, payTx, payErr, payResult,
          gateway, statusResult, grossAmt, cbState, cbCounts, gateCall>>

Init ==
  /\ stock0 \in {[b \in Books |-> IF b = 1 THEN s ELSE 1] : s \in 1 .. MaxStock}
  /\ books = [b \in Books |-> [stock |-> stock0[b], price |-> Price(b)]]
  /\ orders = <<>>
  /\ stockMutex = NoCall
  /\ pc = [c \in Calls |-> "idle"]
  /\ items = [c \in Calls |-> <<>>]
  /\ user = [c \in Calls |-> NoUser]
  /\ idx = [c \in Calls |-> 0]
  /\ orderItems = [c \in Calls |-> <<>>]
  /\ totalAmount = [c \in Calls |-> 0]
  /\ orderID = [c \in Calls |-> 0]
  /\ txOrder = [c \in Calls |-> "none"]
  /\ txStock = [c \in Calls |-> <<>>]
  /\ bookStock = [c \in Calls |-> 0]
  /\ err = [c \in Calls |-> "none"]
  /\ result = [c \in Calls |-> "none"]
  /\ payPc = [p \in Payers |-> "idle"]
  /\ payOrder = [p \in Payers |-> NoOrder]
  /\ payUser = [p \in Payers |-> NoUser]
  /\ payURL = [p \in Payers |-> NoURL]
  /\ payTx = [p \in Payers |-> {}]
  /\ payErr = [p \in Payers |-> "none"]
  /\ payResult = [p \in Payers |-> "none"]
  /\ gateway = [p \in Payers |-> "none"]
  /\ statusResult = "none"
  /\ grossAmt = [p \in Payers |-> NoAmount]
  /\ cbState = "closed"
  /\ cbCounts = NoCounts
  /\ gateCall = [k \in Gates |-> IdleCall]

(* ---- repositories ---- *)

\* the pre-check answering that stock is available whatever the quantity
CheckStock_Always(b, q) == TRUE

\* bookRepositoryImpl.CheckStock: book.Stock >= quantity on the committed row
CheckStock(b, q) == books[b].stock >= q

\* the guard left out, as before the transactional rewrite of CreateOrder
InsufficientStock_Never(bstock, q) == FALSE

\* the guard asking only whether any stock is left
InsufficientStock_AnyLeft(bstock, q) == bstock <= 0

\* order_service.go line 136: the in-transaction guard
InsufficientStock(bstock, q) == bstock < q

\* order_service.go line 142
NewStock(bstock, q) == bstock - q

\* the call whose open transaction holds the row lock of book b
BookLockHolders(b) == {c \in Calls : b \in DOMAIN txStock[c]}

\* entity.Order as CreateOrder builds it (lines 110-114) with its order items
NewOrder(c) ==
  [userID |-> user[c], totalPrice |-> totalAmount[c], status |-> "pending",
   paymentURL |-> NoURL, orderItems |-> orderItems[c]]

\* rows of the books table after the stock writes of a transaction are committed
CommitStock(tx) ==
  [b \in Books |->
    IF b \in DOMAIN tx THEN [books[b] EXCEPT !.stock = tx[b]] ELSE books[b]]

\* a return: the call's locals go out of scope, its result is what the caller
\* sees; idx stays as the line a failed loop stopped at
ReturnAt(c, r, i) ==
  /\ pc' = [pc EXCEPT ![c] = "done"]
  /\ result' = [result EXCEPT ![c] = r]
  /\ items' = [items EXCEPT ![c] = <<>>]
  /\ user' = [user EXCEPT ![c] = NoUser]
  /\ orderItems' = [orderItems EXCEPT ![c] = <<>>]
  /\ totalAmount' = [totalAmount EXCEPT ![c] = 0]
  /\ bookStock' = [bookStock EXCEPT ![c] = 0]
  /\ orderID' = [orderID EXCEPT ![c] = 0]
  /\ idx' = [idx EXCEPT ![c] = i]
  /\ err' = [err EXCEPT ![c] = "none"]

Return(c, r) == ReturnAt(c, r, 0)

\* the transaction function returns error e: WithTransaction goes on to roll back
Fail(c, e) ==
  /\ pc' = [pc EXCEPT ![c] = "rollback"]
  /\ err' = [err EXCEPT ![c] = e]
  /\ items' = [items EXCEPT ![c] = <<>>]
  /\ user' = [user EXCEPT ![c] = NoUser]
  /\ orderItems' = [orderItems EXCEPT ![c] = <<>>]
  /\ totalAmount' = [totalAmount EXCEPT ![c] = 0]
  /\ bookStock' = [bookStock EXCEPT ![c] = 0]
  /\ UNCHANGED <<idx, result>>

(* ---- CreateOrder ---- *)

\* the quantity left out of the line's total
ItemTotal_Unit(price, quantity) == price

\* line 97: itemTotal := book.Price * float64(item.Quantity)
ItemTotal(price, quantity) == price * quantity

\* the line priced at the book's list price instead of the price read
OrderLine_ListPrice(it, price) ==
  [bookID |-> it.bookID, quantity |-> it.quantity, price |-> Price(it.bookID)]

\* lines 101-105: the order item of line it, with the price of the book read
\* at line 78
OrderLine(it, price) ==
  [bookID |-> it.bookID, quantity |-> it.quantity, price |-> price]

\* lines 72-107: one iteration of the validation loop over line i of its, with
\* the order items and the total built so far; o is the outcome of the two
\* reads: any error of bookRepo.GetByID is reported as the book not found, an
\* error of bookRepo.CheckStock is returned as it is
ValidateItem(c, its, u, i, ois, total, o) ==
  LET it == its[i] IN
  IF it.quantity <= 0
    THEN ReturnAt(c, "bad_quantity", i)
  ELSE IF it.bookID \notin Books \/ o = "get_failed"
    THEN ReturnAt(c, "book_not_found", i)
  ELSE IF o = "check_failed"
    THEN ReturnAt(c, "stock_check_error", i)
  ELSE IF ~CheckStock(it.bookID, it.quantity)
    THEN ReturnAt(c, "insufficient_stock", i)
  ELSE /\ items' = [items EXCEPT ![c] = its]
       /\ user' = [user EXCEPT ![c] = u]
       /\ totalAmount' = [totalAmount EXCEPT
              ![c] = total + ItemTotal(books[it.bookID].price, it.quantity)]
       /\ orderItems' = [orderItems EXCEPT ![c] =
              Append(ois, OrderLine(it, books[it.bookID].price))]
       /\ IF i = Len(its)
            THEN /\ pc' = [pc EXCEPT ![c] = "begin"]
                 /\ idx' = [idx EXCEPT ![c] = 1]
            ELSE /\ pc' = [pc EXCEPT ![c] = "validate"]
                 /\ idx' = [idx EXCEPT ![c] = i + 1]
       /\ UNCHANGED <<bookStock, err, result, orderID>>

\* lines 53-107: token validation, the empty-list check and the first
\* iteration of the validation loop
CreateOrder(c, its, tok, o) ==
  /\ pc[c] = "idle"
  /\ IF UserOf(tok) = NoUser
       THEN Return(c, "unauthorized")
       ELSE IF Len(its) = 0
         THEN Return(c, "no_items")
         ELSE ValidateItem(c, its, UserOf(tok), 1, <<>>, 0, o)
  /\ UNCHANGED <<dbVars, stockMutex, stock0, payVars, gateVars, statusResult, txOrder, txStock>>

\* lines 72-107: a later iteration of the validation loop
ValidateNext(c, o) ==
  /\ pc[c] = "validate"
  /\ ValidateItem(c, items[c], user[c], idx[c], orderItems[c], totalAmount[c],
                  o)
  /\ UNCHANGED <<dbVars, stockMutex, stock0, payVars, gateVars, statusResult, txOrder, txStock>>

\* WithTransaction lines 65-68 and CreateOrderTx: begin, insert the order,
\* insert its items; o is the outcome of the three statements. The id the
\* sequence gives the row is fresh; the model names it by the inserting call.
CreateOrderTx(c, o) ==
  /\ pc[c] = "begin"
  /\ CASE o = "begin_failed" ->
            /\ Return(c, "db_error")
            /\ UNCHANGED txOrder
       [] o = "order_insert_failed" ->
            /\ Fail(c, "db_error")
            /\ UNCHANGED <<orderID, txOrder>>
       [] o = "items_insert_failed" ->
            /\ Fail(c, "db_error")
            /\ orderID' = [orderID EXCEPT ![c] = c]
            /\ txOrder' = [txOrder EXCEPT ![c] = "order"]
       [] o = "ok" ->
            /\ pc' = [pc EXCEPT ![c] = "lock"]
            /\ orderID' = [orderID EXCEPT ![c] = c]
            /\ txOrder' = [txOrder EXCEPT ![c] = "order+items"]
            /\ UNCHANGED <<items, user, idx, orderItems, totalAmount,
                           bookStock, err, result>>
  /\ UNCHANGED <<books, orders, stockMutex, stock0, payVars, gateVars, statusResult, txStock>>

\* the read and the guard without stockMutex.Lock()
LockGetByID_NoMutex(c, o) ==
  /\ pc[c] = "lock"
  /\ LET it == items[c][idx[c]] IN
     IF o = "err"
       THEN Fail(c, "db_error")
     ELSE IF InsufficientStock(books[it.bookID].stock, it.quantity)
       THEN Fail(c, "insufficient_stock_tx")
     ELSE /\ pc' = [pc EXCEPT ![c] = "update"]
          /\ bookStock' = [bookStock EXCEPT ![c] = books[it.bookID].stock]
          /\ UNCHANGED <<items, user, idx, orderItems, totalAmount, err,
                         result>>
  /\ UNCHANGED <<dbVars, stockMutex, stock0, payVars, gateVars, statusResult,
                 orderID, txOrder, txStock>>

\* lines 126-140: the mutex is taken, bookRepo.GetByID reads the committed row
\* through r.db (not through tx), then the guard of line 136; on an error the
\* mutex is released before the function returns
LockGetByID(c, o) ==
  /\ pc[c] = "lock"
  /\ stockMutex = NoCall
  /\ LET it == items[c][idx[c]] IN
     IF o = "err"
       THEN Fail(c, "db_error") /\ UNCHANGED stockMutex
     ELSE IF InsufficientStock(books[it.bookID].stock, it.quantity)
       THEN Fail(c, "insufficient_stock_tx") /\ UNCHANGED stockMutex
     ELSE /\ pc' = [pc EXCEPT ![c] = "update"]
          /\ stockMutex' = c
          /\ bookStock' = [bookStock EXCEPT ![c] = books[it.bookID].stock]
          /\ UNCHANGED <<items, user, idx, orderItems, totalAmount, err,
                         result>>
  /\ UNCHANGED <<dbVars, stock0, payVars, gateVars, statusResult, orderID, txOrder, txStock>>

\* the stock written through r.db (bookRepo.UpdateStock) instead of through tx
UpdateStockTx_NoTx(c, o) ==
  /\ pc[c] = "update"
  /\ LET it == items[c][idx[c]] IN
     IF o = "err"
       THEN /\ Fail(c, "db_error")
            /\ UNCHANGED books
       ELSE /\ BookLockHolders(it.bookID) \subseteq {c}
            /\ books' = [books EXCEPT ![it.bookID].stock =
                            NewStock(bookStock[c], it.quantity)]
            /\ IF idx[c] = Len(items[c])
                 THEN /\ pc' = [pc EXCEPT ![c] = "commit"]
                      /\ UNCHANGED idx
                 ELSE /\ pc' = [pc EXCEPT ![c] = "lock"]
                      /\ idx' = [idx EXCEPT ![c] = @ + 1]
            /\ UNCHANGED <<items, user, orderItems, totalAmount, bookStock,
                           err, result>>
  /\ stockMutex' = NoCall
  /\ UNCHANGED <<orders, stock0, payVars, gateVars, statusResult, orderID, txOrder, txStock>>

\* lines 142-150: UpdateStockTx writes newStock inside tx (the UPDATE waits
\* while another transaction holds the row lock), then the mutex is released
UpdateStockTx(c, o) ==
  /\ pc[c] = "update"
  /\ LET it == items[c][idx[c]] IN
     IF o = "err"
       THEN /\ Fail(c, "db_error")
            /\ UNCHANGED txStock
       ELSE /\ BookLockHolders(it.bookID) \subseteq {c}
            /\ txStock' = [txStock EXCEPT ![c] =
                 (it.bookID :> NewStock(bookStock[c], it.quantity)) @@ @]
            /\ IF idx[c] = Len(items[c])
                 THEN /\ pc' = [pc EXCEPT ![c] = "commit"]
                      /\ UNCHANGED idx
                 ELSE /\ pc' = [pc EXCEPT ![c] = "lock"]
                      /\ idx' = [idx EXCEPT ![c] = @ + 1]
            /\ UNCHANGED <<items, user, orderItems, totalAmount, bookStock,
                           err, result>>
  /\ stockMutex' = NoCall
  /\ UNCHANGED <<dbVars, stock0, payVars, gateVars, statusResult, orderID, txOrder>>

\* WithTransaction lines 79-85: the function returned an error; CreateOrder
\* lines 156-159 return it
RollbackTransaction(c) ==
  /\ pc[c] = "rollback"
  /\ txOrder' = [txOrder EXCEPT ![c] = "none"]
  /\ txStock' = [txStock EXCEPT ![c] = <<>>]
  /\ ReturnAt(c, err[c], idx[c])
  /\ UNCHANGED <<dbVars, stockMutex, stock0, payVars, gateVars, statusResult>>

\* WithTransaction line 87 and CreateOrder lines 156-169: commit, then the
\* reload of the committed order; when the reload fails, line 164 reads
\* order.ID of the nil order GetByID returned
CommitTransaction(c, o) ==
  /\ pc[c] = "commit"
  /\ txOrder' = [txOrder EXCEPT ![c] = "none"]
  /\ txStock' = [txStock EXCEPT ![c] = <<>>]
  /\ IF o = "commit_failed"
       THEN /\ Return(c, "db_error")
            /\ UNCHANGED <<books, orders>>
       ELSE /\ orders' = (orderID[c] :> NewOrder(c)) @@ orders
            /\ books' = CommitStock(txStock[c])
            /\ Return(c, IF o = "reload_failed" THEN "panic" ELSE "ok")
  /\ UNCHANGED <<stockMutex, stock0, payVars, gateVars, statusResult>>

CreateOrderStep(c) ==
  \/ \E its \in Requests, o \in ReadOutcomes :
       CreateOrder(c, its, "alice", o)
  \/ CreateOrder(c, <<Item(1, 1)>>, "bad", "ok")
  \/ \E o \in ReadOutcomes : ValidateNext(c, o)
  \/ \E o \in {"ok", "begin_failed", "order_insert_failed",
               "items_insert_failed"} : CreateOrderTx(c, o)
  \/ \E o \in Outcomes : LockGetByID(c, o)
  \/ \E o \in Outcomes : UpdateStockTx(c, o)
  \/ RollbackTransaction(c)
  \/ \E o \in {"ok", "commit_failed", "reload_failed"} : CommitTransaction(c, o)

\* concurrent CreateOrder calls at the service, database faults included
Next == \E c \in Calls : CreateOrderStep(c)

Spec == Init /\ [][Next]_vars

\* the scenario of two buyers after the last unit: one unit of book 1 in
\* stock, every call asks for one unit of book 1
InitRace == Init /\ stock0[1] = 1

RaceStep(c) ==
  \/ CreateOrder(c, <<Item(1, 1)>>, "alice", "ok")
  \/ \E o \in {"ok", "order_insert_failed", "items_insert_failed"} :
       CreateOrderTx(c, o)
  \/ \E o \in Outcomes : LockGetByID(c, o)
  \/ \E o \in Outcomes : UpdateStockTx(c, o)
  \/ RollbackTransaction(c)
  \/ \E o \in {"ok", "commit_failed", "reload_failed"} :
       CommitTransaction(c, o)

NextRace == \E c \in Calls : RaceStep(c)

SpecRace == InitRace /\ [][NextRace]_vars

(* ---- ProcessPayment ---- *)

\* payment.go line 28: itemPrice := int64(item.Price), the conversion of a
\* float64 to an integer, which drops the fractional part; in whole units
ItemPrice(price) == price \div Scale

RECURSIVE CalculatedTotal(_)
\* payment.go lines 25-40: calculatedTotal over the order's items, in whole
\* units; the order's TotalPrice is not read
CalculatedTotal(ois) ==
  IF ois = <<>> THEN 0
  ELSE ItemPrice(Head(ois).price) * Head(ois).quantity
         + CalculatedTotal(Tail(ois))

\* the branch for gobreaker.ErrOpenState left out: the error falls through
\* to the return of line 75
PaymentError_NoOpenState(e) ==
  IF e = "busy" THEN "payment_busy" ELSE "gateway_error"

\* payment.go lines 63-76: what CreatePayment returns for the error e of
\* ExecuteWithCircuitBreaker: "open" is gobreaker.ErrOpenState, "busy" is
\* gobreaker.ErrTooManyRequests, any other is the gateway's own error
PaymentError(e) ==
  CASE e = "open" -> "payment_unavailable"
    [] e = "busy" -> "payment_busy"
    [] OTHER -> "gateway_error"

\* the redirect URL the gateway returns to call p (a fresh one per transaction)
RedirectURL(p) == p

\* the check of line 289 left out
NotPending_Never(status) == FALSE

\* order_service.go line 289
NotPending(status) == status # "pending"

\* the error of CreatePayment ignored
PaymentFailed_Ignored(o) == FALSE

\* order_service.go line 295: err != nil after helpers.CreatePayment
PaymentFailed(o) == o # "ok"

\* the payers whose open transaction holds the row lock of order id
OrderLockHolders(id) == {p \in Payers : payTx[p] # {} /\ payOrder[p] = id}

createVars == <<stockMutex, stock0, pc, items, user, idx, orderItems,
                totalAmount, orderID, txOrder, txStock, bookStock, err, result>>

\* a return of ProcessPayment; the arguments stay with the caller
PayReturn(p, r) ==
  /\ payPc' = [payPc EXCEPT ![p] = "done"]
  /\ payResult' = [payResult EXCEPT ![p] = r]
  /\ payURL' = [payURL EXCEPT ![p] = NoURL]
  /\ payErr' = [payErr EXCEPT ![p] = "none"]

\* lines 265-292: token, orderRepo.GetByID on the committed row, owner check,
\* pending check
ProcessPayment(p, id, tok) ==
  /\ payPc[p] = "idle"
  /\ payOrder' = [payOrder EXCEPT ![p] = id]
  /\ payUser' = [payUser EXCEPT ![p] = UserOf(tok)]
  /\ IF UserOf(tok) = NoUser THEN PayReturn(p, "unauthorized")
     ELSE IF id \notin DOMAIN orders THEN PayReturn(p, "order_not_found")
     ELSE IF orders[id].userID # UserOf(tok) THEN PayReturn(p, "access_denied")
     ELSE IF NotPending(orders[id].status) THEN PayReturn(p, "not_pending")
     ELSE /\ payPc' = [payPc EXCEPT ![p] = "gateway"]
          /\ UNCHANGED <<payURL, payErr, payResult>>
  /\ UNCHANGED <<dbVars, createVars, gateVars, payTx, gateway, statusResult>>

\* line 294-298 and helpers.CreatePayment lines 53-86: the gateway request
\* behind the breaker; o is what ExecuteWithCircuitBreaker gave back
CreatePayment(p, o) ==
  /\ payPc[p] = "gateway"
  /\ gateway' = [gateway EXCEPT ![p] = o]
  /\ grossAmt' = [grossAmt EXCEPT ![p] =
        IF o \in {"open", "busy"} THEN NoAmount
        ELSE CalculatedTotal(orders[payOrder[p]].orderItems)]
  /\ IF PaymentFailed(o)
       THEN PayReturn(p, PaymentError(o))
       ELSE /\ payPc' = [payPc EXCEPT ![p] = "url"]
            /\ payURL' = [payURL EXCEPT ![p] =
                             IF o = "ok" THEN RedirectURL(p) ELSE NoURL]
            /\ UNCHANGED <<payErr, payResult>>
  /\ UNCHANGED <<dbVars, createVars, cbVars, payOrder, payUser, payTx, statusResult>>

\* the payment URL written through r.db (orderRepo.UpdatePaymentURL) instead
\* of through tx
UpdatePaymentURLTx_NoTx(p, o) ==
  /\ payPc[p] = "url"
  /\ CASE o = "begin_failed" ->
            PayReturn(p, "begin_failed") /\ UNCHANGED <<payTx, orders>>
       [] o = "err" ->
            /\ payPc' = [payPc EXCEPT ![p] = "rollback"]
            /\ payErr' = [payErr EXCEPT ![p] = "url_update_failed"]
            /\ UNCHANGED <<payTx, payURL, payResult, orders>>
       [] o = "ok" ->
            /\ OrderLockHolders(payOrder[p]) = {}
            /\ orders' = [orders EXCEPT ![payOrder[p]].paymentURL = payURL[p]]
            /\ payTx' = [payTx EXCEPT ![p] = {"payment_url"}]
            /\ payPc' = [payPc EXCEPT ![p] = "status"]
            /\ UNCHANGED <<payURL, payErr, payResult>>
  /\ UNCHANGED <<books, createVars, gateVars, payOrder, payUser, gateway, statusResult>>

\* WithTransaction lines 65-68 and line 301: begin, then UpdatePaymentURLTx
\* inside tx (the UPDATE waits while another transaction holds the row lock)
UpdatePaymentURLTx(p, o) ==
  /\ payPc[p] = "url"
  /\ CASE o = "begin_failed" ->
            PayReturn(p, "begin_failed") /\ UNCHANGED payTx
       [] o = "err" ->
            /\ payPc' = [payPc EXCEPT ![p] = "rollback"]
            /\ payErr' = [payErr EXCEPT ![p] = "url_update_failed"]
            /\ UNCHANGED <<payTx, payURL, payResult>>
       [] o = "ok" ->
            /\ OrderLockHolders(payOrder[p]) = {}
            /\ payTx' = [payTx EXCEPT ![p] = {"payment_url"}]
            /\ payPc' = [payPc EXCEPT ![p] = "status"]
            /\ UNCHANGED <<payURL, payErr, payResult>>
  /\ UNCHANGED <<dbVars, createVars, gateVars, payOrder, payUser, gateway, statusResult>>

\* line 306: UpdateStatusTx(tx, orderID, "processing")
UpdateStatusTx(p, o) ==
  /\ payPc[p] = "status"
  /\ IF o = "err"
       THEN /\ payPc' = [payPc EXCEPT ![p] = "rollback"]
            /\ payErr' = [payErr EXCEPT ![p] = "status_update_failed"]
            /\ UNCHANGED payTx
       ELSE /\ payTx' = [payTx EXCEPT ![p] = @ \cup {"status"}]
            /\ payPc' = [payPc EXCEPT ![p] = "commit"]
            /\ UNCHANGED payErr
  /\ UNCHANGED <<dbVars, createVars, gateVars, payOrder, payUser, payURL, payResult,
                 gateway, statusResult>>

\* the order row after the columns written by p's transaction are committed
CommitPayment(p) ==
  [orders EXCEPT
     ![payOrder[p]].paymentURL =
        IF "payment_url" \in payTx[p] THEN payURL[p] ELSE @,
     ![payOrder[p]].status =
        IF "status" \in payTx[p] THEN "processing" ELSE @]

\* WithTransaction lines 79-85, ProcessPayment lines 314-317
PayRollback(p) ==
  /\ payPc[p] = "rollback"
  /\ payTx' = [payTx EXCEPT ![p] = {}]
  /\ PayReturn(p, payErr[p])
  /\ UNCHANGED <<dbVars, createVars, gateVars, payOrder, payUser, gateway, statusResult>>

\* WithTransaction line 87, ProcessPayment lines 314-320
PayCommit(p, o) ==
  /\ payPc[p] = "commit"
  /\ payTx' = [payTx EXCEPT ![p] = {}]
  /\ IF o = "err"
       THEN PayReturn(p, "commit_failed") /\ UNCHANGED orders
       ELSE orders' = CommitPayment(p) /\ PayReturn(p, "ok")
  /\ UNCHANGED <<books, createVars, gateVars, payOrder, payUser, gateway, statusResult>>

(* ---- UpdateOrderStatus ---- *)

ValidStatuses == {"pending", "processing", "shipped", "completed", "cancelled"}

\* the membership test accepting every string
ValidStatus_Any(status) == TRUE

\* order_service.go lines 233-240
ValidStatus(status) == status \in ValidStatuses

\* the row saved whole from a struct that holds only the id and the status
UpdateOrderStatus_Save(id, status, tok, o) ==
  /\ IF UserOf(tok) = NoUser
       THEN statusResult' = "unauthorized" /\ UNCHANGED orders
     ELSE IF Role(UserOf(tok)) # "admin"
       THEN statusResult' = "access_denied" /\ UNCHANGED orders
     ELSE IF ~ValidStatus(status)
       THEN statusResult' = "invalid_status" /\ UNCHANGED orders
     ELSE IF o = "err"
       THEN statusResult' = "db_error" /\ UNCHANGED orders
     ELSE IF id \notin DOMAIN orders
       THEN statusResult' = "order_not_found" /\ UNCHANGED orders
     ELSE /\ OrderLockHolders(id) = {}
          /\ orders' = [orders EXCEPT ![id] =
                [userID |-> NoUser, totalPrice |-> 0, status |-> status,
                 paymentURL |-> NoURL, orderItems |-> @.orderItems]]
          /\ statusResult' = "ok"
  /\ UNCHANGED <<books, createVars, payVars, gateVars>>

\* lines 222-262: admin token, status validation, orderRepo.UpdateStatus (an
\* UPDATE outside any transaction, which waits while a transaction holds the
\* row lock), then the reload
UpdateOrderStatus(id, status, tok, o) ==
  /\ IF UserOf(tok) = NoUser
       THEN statusResult' = "unauthorized" /\ UNCHANGED orders
     ELSE IF Role(UserOf(tok)) # "admin"
       THEN statusResult' = "access_denied" /\ UNCHANGED orders
     ELSE IF ~ValidStatus(status)
       THEN statusResult' = "invalid_status" /\ UNCHANGED orders
     ELSE IF o = "err"
       THEN statusResult' = "db_error" /\ UNCHANGED orders
     ELSE IF id \notin DOMAIN orders
       THEN statusResult' = "order_not_found" /\ UNCHANGED orders
     ELSE /\ OrderLockHolders(id) = {}
          /\ orders' = [orders EXCEPT ![id].status = status]
          /\ statusResult' = "ok"
  /\ UNCHANGED <<books, createVars, payVars, gateVars>>

\* one order created by call 1 without faults, then concurrent ProcessPayment
\* calls and UpdateOrderStatus calls on it
PayCreateStep ==
  \/ CreateOrder(1, <<Item(1, 1)>>, "alice", "ok")
  \/ CreateOrderTx(1, "ok")
  \/ LockGetByID(1, "ok")
  \/ UpdateStockTx(1, "ok")
  \/ CommitTransaction(1, "ok")

PayStep(p) ==
  \/ \E tok \in {"alice", "bob", "bad"} : ProcessPayment(p, 1, tok)
  \/ \E o \in {"ok", "rejected", "open", "busy"} : CreatePayment(p, o)
  \/ \E o \in {"ok", "begin_failed", "err"} : UpdatePaymentURLTx(p, o)
  \/ \E o \in Outcomes : UpdateStatusTx(p, o)
  \/ PayRollback(p)
  \/ \E o \in Outcomes : PayCommit(p, o)

StatusStep ==
  \/ \E tok \in {"alice", "bad"} : UpdateOrderStatus(1, "shipped", tok, "ok")
  \/ \E status \in ValidStatuses \cup {"bogus"}, o \in Outcomes :
       UpdateOrderStatus(1, status, "admin", o)

NextPay == PayCreateStep \/ (\E p \in Payers : PayStep(p)) \/ StatusStep

SpecPay == Init /\ [][NextPay]_vars

(* ---- UpdateBook and the life of an order ---- *)

\* prices an admin gives a book
NewPrices == {Price(1), 1999}

\* book_service.go lines 105-148: admin token, the book and its category are
\* looked up, then bookRepo.Update saves the row with the price and the stock
\* given by the caller (an UPDATE outside any transaction, which waits while a
\* transaction holds the row lock); o is the outcome of the lookups and of
\* the save. An error is returned to the caller and changes nothing.
UpdateBook(id, price, stock, tok, o) ==
  IF \/ UserOf(tok) = NoUser \/ Role(UserOf(tok)) # "admin"
     \/ id \notin Books \/ o = "err"
    THEN UNCHANGED vars
    ELSE /\ BookLockHolders(id) = {}
         /\ books' = [books EXCEPT ![id] = [stock |-> stock, price |-> price]]
         /\ UNCHANGED <<orders, createVars, payVars, gateVars, statusResult>>

\* calls of CreateOrder made while the catalog is edited
NumLifeCalls == 1

LifeCalls == 1 .. NumLifeCalls

\* requests of one line, of one line of two units, and of two lines
LifeRequests == {<<Item(1, 1)>>, <<Item(1, MaxQty)>>, <<Item(1, 1), Item(2, 1)>>}

LifeCreateStep(c) ==
  \/ \E its \in LifeRequests : CreateOrder(c, its, "alice", "ok")
  \/ ValidateNext(c, "ok")
  \/ CreateOrderTx(c, "ok")
  \/ LockGetByID(c, "ok")
  \/ UpdateStockTx(c, "ok")
  \/ RollbackTransaction(c)
  \/ CommitTransaction(c, "ok")

LifePayStep(p) ==
  \/ \E id \in DOMAIN orders : ProcessPayment(p, id, "alice")
  \/ CreatePayment(p, "ok")
  \/ UpdatePaymentURLTx(p, "ok")
  \/ UpdateStatusTx(p, "ok")
  \/ PayCommit(p, "ok")

LifeBookStep ==
  \/ \E price \in NewPrices, stock \in 0 .. MaxStock :
       UpdateBook(1, price, stock, "admin", "ok")
  \/ \E tok \in {"alice", "bad"} : UpdateBook(1, 1999, 0, tok, "ok")
  \/ \E id \in {1, UnknownBook}, o \in Outcomes \ {"ok"} :
       UpdateBook(id, 1999, 0, "admin", o)

LifeStatusStep ==
  \E id \in DOMAIN orders : UpdateOrderStatus(id, "shipped", "admin", "ok")

\* orders are created while an admin edits the catalog, then paid and shipped
NextLife ==
  \/ \E c \in LifeCalls : LifeCreateStep(c)
  \/ LifePayStep(1)
  \/ LifeBookStep
  \/ LifeStatusStep

SpecLife == Init /\ [][NextLife]_vars

(* ---- UpdateOrderStatus by every caller ---- *)

\* tokens of two customers and of the admin, and a token that does not verify
Tokens == {"alice", "bob", "admin", "bad"}

\* call c orders one copy of book c, which is in stock: no call fails
StatusCreateStep(c) ==
  \/ CreateOrder(c, <<Item(c, 1)>>, "alice", "ok")
  \/ CreateOrderTx(c, "ok")
  \/ LockGetByID(c, "ok")
  \/ UpdateStockTx(c, "ok")
  \/ CommitTransaction(c, "ok")

\* orders are created while every caller asks for every status of each of them
NextStatus ==
  \/ \E c \in LifeCalls : StatusCreateStep(c)
  \/ \E id \in LifeCalls, tok \in Tokens,
        status \in ValidStatuses \cup {"bogus"}, o \in Outcomes :
       UpdateOrderStatus(id, status, tok, o)

SpecStatus == Init /\ [][NextStatus]_vars

(* ---- the payment breaker ---- *)

\* a single probe let through and enough to close the breaker
MaxRequests_One == Len(<<"probe">>)

\* circuit_breaker.go line 24
MaxRequests == 3

\* the threshold read as more than 60% failed
ReadyToTrip_Above(counts) ==
  counts.requests >= 5 /\ 10 * counts.totalFailures > 6 * counts.requests

\* circuit_breaker.go lines 27-30: Requests >= 5 and
\* TotalFailures / Requests >= 0.6
ReadyToTrip(counts) ==
  counts.requests >= 5 /\ 10 * counts.totalFailures >= 6 * counts.requests

\* gobreaker setState and toNewGeneration: the breaker goes to state st, the
\* counts are cleared and the calls in flight are of an older generation, so
\* that their outcome is not counted; calls is gateCall with the returning
\* call, if any, already back
ToNewGeneration(st, calls) ==
  /\ cbState' = st
  /\ cbCounts' = NoCounts
  /\ gateCall' = [j \in Gates |->
        IF calls[j].pc = "remote" THEN [calls[j] EXCEPT !.stale = TRUE]
        ELSE calls[j]]

\* gobreaker beforeRequest for caller k: rejected in the open state, and in
\* the half-open state once MaxRequests calls were let in; else counted
BeforeRequest(k) ==
  IF cbState = "open"
    THEN /\ gateCall' = [gateCall EXCEPT ![k] =
               [pc |-> "idle", stale |-> FALSE, contacted |-> FALSE,
                result |-> PaymentError("open")]]
         /\ UNCHANGED <<cbState, cbCounts>>
  ELSE IF cbState = "half-open" /\ cbCounts.requests >= MaxRequests
    THEN /\ gateCall' = [gateCall EXCEPT ![k] =
               [pc |-> "idle", stale |-> FALSE, contacted |-> FALSE,
                result |-> PaymentError("busy")]]
         /\ UNCHANGED <<cbState, cbCounts>>
  ELSE /\ cbCounts.requests < MaxWindow
       /\ cbCounts' = [cbCounts EXCEPT !.requests = @ + 1]
       /\ gateCall' = [gateCall EXCEPT ![k] =
             [pc |-> "remote", stale |-> FALSE, contacted |-> TRUE,
              result |-> "none"]]
       /\ UNCHANGED cbState

\* payment.go line 54 and circuit_breaker.go lines 62-64: CreatePayment enters
\* cb.Execute, which lets the request through to snap.CreateTransaction or
\* rejects it
ExecuteWithCircuitBreaker(k) ==
  /\ gateCall[k].pc = "idle"
  /\ BeforeRequest(k)
  /\ UNCHANGED <<dbVars, createVars, payVars, statusResult, grossAmt>>

\* gobreaker onSuccess on the counts
OnSuccess(counts) ==
  [counts EXCEPT !.consecutiveSuccesses = @ + 1]

\* gobreaker onFailure on the counts
OnFailure(counts) ==
  [counts EXCEPT !.totalFailures = @ + 1, !.consecutiveSuccesses = 0]

\* gobreaker afterRequest for caller k whose request returned o; calls is
\* gateCall with k back from its call. The outcome of a call of an older
\* generation is dropped. A success in the half-open state closes the breaker
\* once MaxRequests consecutive successes are counted; a failure in the
\* closed state opens it when ReadyToTrip says so, and always in the
\* half-open state.
AfterRequest(k, o, calls) ==
  IF gateCall[k].stale
    THEN gateCall' = calls /\ UNCHANGED <<cbState, cbCounts>>
  ELSE IF o = "ok"
    THEN IF /\ cbState = "half-open"
            /\ OnSuccess(cbCounts).consecutiveSuccesses >= MaxRequests
           THEN ToNewGeneration("closed", calls)
           ELSE /\ cbCounts' = OnSuccess(cbCounts)
                /\ gateCall' = calls
                /\ UNCHANGED cbState
  ELSE IF cbState = "half-open" \/ ReadyToTrip(OnFailure(cbCounts))
    THEN ToNewGeneration("open", calls)
    ELSE /\ cbCounts' = OnFailure(cbCounts)
         /\ gateCall' = calls
         /\ UNCHANGED cbState

\* payment.go lines 55-85: snap.CreateTransaction returns o to caller k,
\* cb.Execute records the outcome, CreatePayment returns the redirect URL or
\* the error
CreateTransaction(k, o) ==
  /\ gateCall[k].pc = "remote"
  /\ AfterRequest(k, o, [gateCall EXCEPT ![k] =
        [pc |-> "idle", stale |-> FALSE, contacted |-> TRUE,
         result |-> IF o = "ok" THEN "ok" ELSE PaymentError(o)]])
  /\ UNCHANGED <<dbVars, createVars, payVars, statusResult, grossAmt>>

\* circuit_breaker.go line 26: Timeout, 60 seconds after the breaker opened,
\* is over; gobreaker currentState moves the breaker to half-open
TimeoutElapsed ==
  /\ cbState = "open"
  /\ ToNewGeneration("half-open", gateCall)
  /\ UNCHANGED <<dbVars, createVars, payVars, statusResult, grossAmt>>

\* circuit_breaker.go line 25: Interval, 30 seconds of the closed state, is
\* over; gobreaker currentState starts a new generation with cleared counts
IntervalElapsed ==
  /\ cbState = "closed"
  /\ cbCounts # NoCounts
  /\ ToNewGeneration("closed", gateCall)
  /\ UNCHANGED <<dbVars, createVars, payVars, statusResult, grossAmt>>

GateStep(k) ==
  \/ ExecuteWithCircuitBreaker(k)
  \/ \E o \in {"ok", "rejected"} : CreateTransaction(k, o)

\* concurrent CreatePayment calls at the payment breaker, and the passing of
\* the breaker's two time spans
NextBreaker == (\E k \in Gates : GateStep(k)) \/ TimeoutElapsed \/ IntervalElapsed

SpecBreaker == Init /\ [][NextBreaker]_vars

(* ---- derived quantities ---- *)

RECURSIVE LineQuantity(_, _)
\* the quantity of book b over the lines ois
LineQuantity(ois, b) ==
  IF ois = <<>> THEN 0
  ELSE (IF Head(ois).bookID = b THEN Head(ois).quantity ELSE 0)
         + LineQuantity(Tail(ois), b)

RECURSIVE SoldOver(_, _)
SoldOver(ids, b) ==
  IF ids = {} THEN 0
  ELSE LET id == CHOOSE x \in ids : TRUE IN
       LineQuantity(orders[id].orderItems, b) + SoldOver(ids \ {id}, b)

\* the quantity of book b over all committed orders
Sold(b) == SoldOver(DOMAIN orders, b)

\* no committed order has two lines of one book (what the gRPC handler's
\* ValidateCreateOrderRequest lets through)
DistinctLines ==
  \A id \in DOMAIN orders :
    \A i, j \in DOMAIN orders[id].orderItems :
      orders[id].orderItems[i].bookID = orders[id].orderItems[j].bookID => i = j

\* call c takes a step
StepOf(c) == pc'[c] # pc[c] \/ idx'[c] # idx[c]

(* ---- claims ---- *)

\* C1: no oversell. Over orders without duplicate lines, the quantities of a
\* book over all committed orders never exceed the stock the book started with.
C1_NoOversell ==
  DistinctLines => \A b \in Books : Sold(b) <= stock0[b]

\* C2: one unit of book 1 in stock and every call asking for one unit of it.
\* Once all calls have returned an order or an insufficient-stock error,
\* exactly one call has returned an order, the others the insufficient-stock
\* error, and the committed stock of book 1 is 0.
C2_ExactlyOneSucceeds ==
  (\A c \in Calls :
      /\ pc[c] = "done"
      /\ result[c] \in {"ok", "insufficient_stock", "insufficient_stock_tx"})
    => /\ Cardinality({c \in Calls : result[c] = "ok"}) = 1
       /\ Cardinality(DOMAIN orders) = 1
       /\ \A id \in DOMAIN orders : orders[id].status = "pending"
       /\ books[1].stock = 0

\* C3: atomicity inside the unit of work. No statement of the transaction
\* function and no rollback changes a committed row, and once the rollback of
\* a failed function has run, the call's order row, order items and stock
\* writes are gone and the call returns the function's error.
C3_TxFailureLeavesNothing ==
  [][\A c \in Calls :
       (StepOf(c) /\ pc[c] \in {"begin", "lock", "update", "rollback"})
         => /\ books' = books
            /\ orders' = orders
            /\ (pc[c] = "rollback" =>
                  /\ pc'[c] = "done"
                  /\ result'[c] = err[c]
                  /\ result'[c] # "ok"
                  /\ c \notin DOMAIN orders'
                  /\ txOrder'[c] = "none"
                  /\ txStock'[c] = <<>>)]_vars

\* C3 witness: a call has returned the error of a statement that failed at
\* its second line, after its first line was decremented inside the
\* transaction; no order exists and every stock is as it started.
C3_Witness ==
  \E c \in Calls :
    /\ pc[c] = "done" /\ result[c] = "db_error" /\ idx[c] = 2
    /\ orders = <<>>
    /\ \A b \in Books : books[b].stock = stock0[b]

\* C4: authoritative re-check. When a call leaves the locked read of a line
\* while the committed stock of the line's book is below the line's quantity,
\* the transaction function fails (with the insufficient-stock error unless
\* the read itself failed), and the rollback that follows leaves no order of
\* the call and returns that error.
C4_RecheckRejects ==
  [][\A c \in Calls :
       /\ (StepOf(c) /\ pc[c] = "lock"
             /\ books[items[c][idx[c]].bookID].stock < items[c][idx[c]].quantity)
            => /\ pc'[c] = "rollback"
               /\ err'[c] \in {"insufficient_stock_tx", "db_error"}
               /\ txOrder'[c] = "order+items"
       /\ (StepOf(c) /\ pc[c] = "rollback" /\ err[c] = "insufficient_stock_tx")
            => /\ result'[c] = "insufficient_stock_tx"
               /\ c \notin DOMAIN orders'
               /\ txOrder'[c] = "none"]_vars

\* C4 witness: a call returned the in-transaction insufficient-stock error
\* after another call's commit took the stock; only the other order exists.
C4_Witness ==
  \E c \in Calls :
    /\ pc[c] = "done" /\ result[c] = "insufficient_stock_tx"
    /\ c \notin DOMAIN orders
    /\ orders # <<>>

\* C5: linearization at the decrement step. A call that has read a book's
\* stock under the mutex, after another call wrote that book in a transaction
\* still open, has read the value the other call wrote.
C5_SecondReadsFirstsWrite ==
  \A d \in Calls :
    pc[d] = "update" =>
      \A c \in Calls \ {d} :
        LET b == items[d][idx[d]].bookID IN
        b \in DOMAIN txStock[c] => bookStock[d] = txStock[c][b]

\* C6: the stock of every book is >= 0 in every state, committed or written
\* inside an open transaction.
C6_StockNeverNegative ==
  /\ \A b \in Books : books[b].stock >= 0
  /\ \A c \in Calls : \A b \in DOMAIN txStock[c] : txStock[c][b] >= 0

\* C6 witness: committed orders have taken a book's stock down to 0.
C6_Witness ==
  \E b \in Books : books[b].stock = 0 /\ stock0[b] > 0 /\ Sold(b) > 0

LifecycleEdges ==
  {<<"pending", "processing">>, <<"processing", "shipped">>,
   <<"processing", "completed">>, <<"processing", "cancelled">>}

\* payer p takes a step
PayStepOf(p) == payPc'[p] # payPc[p]

\* the step is an UpdateOrderStatus call: no CreateOrder or ProcessPayment
\* call moves
StatusStepTaken ==
  /\ \A p \in Payers : ~PayStepOf(p)
  /\ \A c \in Calls : ~StepOf(c)

\* p's transaction commits its two writes to order id
PayCommitted(p, id) ==
  /\ payPc[p] = "commit" /\ payPc'[p] = "done" /\ payResult'[p] = "ok"
  /\ payOrder[p] = id

\* C7: ProcessPayment by the owner goes on to the gateway only from an order
\* read as pending and returns a payment URL only after the gateway answered;
\* the commit of a successful call leaves the status 'processing' and the
\* stored URL the gateway's redirect URL; a call by the owner on an order that
\* is not pending returns the not-pending error at once, has made no gateway
\* request and changes no order.
C7_PaymentOnlyWhenPending ==
  [][\A p \in Payers :
       /\ (payPc[p] = "idle" /\ payPc'[p] = "gateway")
            => /\ payOrder'[p] \in DOMAIN orders
               /\ orders[payOrder'[p]].status = "pending"
               /\ orders[payOrder'[p]].userID = payUser'[p]
       /\ (/\ payPc[p] = "idle" /\ payPc'[p] # "idle"
           /\ payOrder'[p] \in DOMAIN orders
           /\ orders[payOrder'[p]].userID = payUser'[p]
           /\ orders[payOrder'[p]].status # "pending")
            => /\ payPc'[p] = "done"
               /\ payResult'[p] = "not_pending"
               /\ gateway'[p] = "none"
               /\ orders' = orders
       /\ (payResult'[p] = "ok" /\ payResult[p] # "ok")
            => /\ payPc[p] = "commit"
               /\ gateway[p] = "ok"
               /\ orders'[payOrder[p]].status = "processing"
               /\ orders'[payOrder[p]].paymentURL = payURL[p]
               /\ payURL[p] = RedirectURL(p)]_vars

\* C7 witness: one call by the owner has returned its URL, the order is
\* processing with that URL, and a following call by the owner has returned
\* the not-pending error without a gateway request.
C7_Witness ==
  \E p \in Payers, q \in Payers :
    /\ payResult[p] = "ok" /\ payResult[q] = "not_pending"
    /\ gateway[q] = "none"
    /\ payOrder[p] = payOrder[q]
    /\ orders[payOrder[p]].status = "processing"
    /\ orders[payOrder[p]].paymentURL = RedirectURL(p)

C10_PaymentWritesAtomic ==
  [][\A p \in Payers :
       PayStepOf(p) =>
         /\ \/ orders' = orders
            \/ /\ PayCommitted(p, payOrder[p])
               /\ orders' = [orders EXCEPT
                     ![payOrder[p]].paymentURL = payURL[p],
                     ![payOrder[p]].status = "processing"]
         /\ (payPc[p] = "rollback" =>
               /\ orders' = orders
               /\ payTx'[p] = {}
               /\ payResult'[p] = payErr[p]
               /\ payResult'[p] # "ok")]_vars

\* C10 witness: the status write failed after the URL write succeeded, the
\* call has returned that error, and the order is still pending without URL.
C10_Witness ==
  \E p \in Payers :
    /\ payResult[p] = "status_update_failed"
    /\ orders[payOrder[p]].status = "pending"
    /\ orders[payOrder[p]].paymentURL = NoURL

RECURSIVE LineTotal(_)
\* the sum over the lines ois of quantity x line price, in cents
LineTotal(ois) ==
  IF ois = <<>> THEN 0
  ELSE Head(ois).price * Head(ois).quantity + LineTotal(Tail(ois))

\* C11: the gross amount of every request CreatePayment sends to the gateway
\* equals the sum over the order's lines of quantity x line unit price,
\* fractional part included (51.98 for 2 at 25.99).
C11_GrossAmountIsLineSum ==
  \A p \in Payers :
    grossAmt[p] # NoAmount
      => grossAmt[p] * Scale = LineTotal(orders[payOrder[p]].orderItems)

\* the counts of a window at which the breaker is due to trip: at least 5
\* requests of which at least 60% failed
TripCondition(requests, failures) ==
  requests >= 5 /\ 10 * failures >= 6 * requests

\* caller k's request of the current generation returns in this step
Returns(k) ==
  gateCall[k].pc = "remote" /\ gateCall'[k].pc = "idle" /\ ~gateCall[k].stale

Starts(k) == gateCall[k].pc = "idle" /\ gateCall'[k] # gateCall[k]

\* C13: a CreatePayment call made while the breaker is open returns the error
\* 'payment service temporarily unavailable' at once, the gateway is not
\* contacted and the breaker is left as it was; no call that contacted the
\* gateway returns that error (a rejection by the gateway is another error).
C13_OpenRejectsWithoutGateway ==
  [][\A k \in Gates :
       /\ (cbState = "open" /\ Starts(k))
            => /\ gateCall'[k].pc = "idle"
               /\ gateCall'[k].result = "payment_unavailable"
               /\ ~gateCall'[k].contacted
               /\ cbState' = "open" /\ cbCounts' = cbCounts
       /\ (gateCall[k].pc = "remote" /\ gateCall'[k].pc = "idle")
            => /\ gateCall'[k].contacted
               /\ gateCall'[k].result \in {"ok", "gateway_error"}
               /\ gateCall'[k].result # PaymentError("open")]_vars

\* C13 witness: the breaker is open and a call was turned away
C13_Witness ==
  /\ cbState = "open"
  /\ \E k \in Gates :
       /\ gateCall[k].result = "payment_unavailable"
       /\ ~gateCall[k].contacted
       /\ gateCall[k].pc = "idle"

\* C14 as stated: in the half-open state one successful probe call returns the
\* breaker to the closed state with cleared counts.
C14_OneProbeCloses ==
  [][\A k \in Gates :
       (cbState = "half-open" /\ Returns(k) /\ gateCall'[k].result = "ok")
         => cbState' = "closed" /\ cbCounts' = NoCounts]_vars

\* C14 as amended: in the half-open state the breaker returns to the closed
\* state, with cleared counts, at the third consecutive successful probe call
\* (MaxRequests is 3); a first or second successful probe leaves it half-open,
\* and nothing else takes the breaker from half-open to closed.
C14_ThreeProbesClose ==
  [][/\ \A k \in Gates :
          (cbState = "half-open" /\ Returns(k) /\ gateCall'[k].result = "ok")
            => IF cbCounts.consecutiveSuccesses + 1 >= 3
                 THEN cbState' = "closed" /\ cbCounts' = NoCounts
                 ELSE /\ cbState' = "half-open"
                      /\ cbCounts'.consecutiveSuccesses
                           = cbCounts.consecutiveSuccesses + 1
     /\ (cbState = "half-open" /\ cbState' = "closed")
          => \E k \in Gates :
               /\ Returns(k) /\ gateCall'[k].result = "ok"
               /\ cbCounts.consecutiveSuccesses = 2]_vars

\* C14 witness: the breaker is closed again with cleared counts after it was
\* open (a call was turned away) and probes succeeded
C14_Witness ==
  /\ cbState = "closed" /\ cbCounts = NoCounts
  /\ \E k \in Gates : gateCall[k].result = "payment_unavailable"
  /\ \E k \in Gates : gateCall[k].result = "ok" /\ gateCall[k].pc = "idle"

\* C15: in the half-open state a failed probe call moves the breaker back to
\* open; while it is open a call that starts is turned away with the
\* temporarily-unavailable error without the gateway being contacted, and the
\* breaker leaves the open state only when a new cool-down has elapsed, for
\* the half-open state.
C15_FailedProbeReopens ==
  [][/\ \A k \in Gates :
          /\ (/\ cbState = "half-open" /\ Returns(k)
              /\ gateCall'[k].result = "gateway_error")
               => cbState' = "open"
          /\ (cbState = "open" /\ Starts(k))
               => /\ gateCall'[k].pc = "idle" /\ ~gateCall'[k].contacted
                  /\ gateCall'[k].result = "payment_unavailable"
     /\ (cbState = "open" /\ cbState' # "open")
          => /\ cbState' = "half-open"
             /\ \A k \in Gates : gateCall'[k].pc = gateCall[k].pc]_vars

\* C15 witness: the breaker is open after a failed probe of the half-open
\* state (in which another call was refused as one probe too many)
C15_Witness ==
  /\ cbState = "open" /\ cbCounts = NoCounts
  /\ \E k \in Gates :
       gateCall[k].pc = "idle" /\ gateCall[k].result = "gateway_error"
  /\ \E k \in Gates : gateCall[k].result = "payment_busy"

\* C16: a CreateOrder call that does not return an order leaves the committed
\* orders and every stock value as they were: a step of a call that changes
\* the orders or the books is the last step of a call that returns the order.
C16_ErrorLeavesStoreUnchanged ==
  [][\A c \in Calls :
       (StepOf(c) /\ (orders' # orders \/ books' # books))
         => pc'[c] = "done" /\ result'[c] = "ok"]_vars

\* the line call c validates in this step
LineAt(c) == IF pc[c] = "idle" THEN 1 ELSE idx[c]

\* C17: CreateOrder's validation. A call returns from the validation loop only
\* with an error, with no transaction opened and the orders and stocks
\* unchanged; at a line with quantity <= 0, an unknown book or a quantity above
\* the stock seen at the pre-check it returns so, also after valid lines, and
\* it goes past a line only if the line has none of these defects; an empty
\* list is refused before the loop.
C17_ValidationRejects ==
  [][\A c \in Calls :
       /\ (pc[c] \in {"idle", "validate"} /\ pc'[c] = "done")
            => /\ result'[c] \in {"unauthorized", "no_items", "bad_quantity",
                                  "book_not_found", "stock_check_error",
                                  "insufficient_stock"}
               /\ orders' = orders /\ books' = books
               /\ txOrder'[c] = "none" /\ txStock'[c] = <<>>
       /\ (pc[c] = "validate" /\ pc'[c] = "done")
            => LET it == items[c][idx[c]] IN
               /\ idx'[c] = idx[c]
               /\ (result'[c] = "bad_quantity") <=> (it.quantity <= 0)
               /\ (it.quantity > 0 /\ it.bookID \notin Books)
                    => result'[c] = "book_not_found"
               /\ (result'[c] = "insufficient_stock")
                    => /\ it.bookID \in Books
                       /\ it.quantity > books[it.bookID].stock
       /\ (pc[c] \in {"idle", "validate"} /\ pc'[c] \in {"validate", "begin"}
           /\ StepOf(c))
            => LET it == items'[c][LineAt(c)] IN
               /\ it.quantity > 0 /\ it.bookID \in Books
               /\ it.quantity <= books[it.bookID].stock
               /\ orders' = orders /\ books' = books
               /\ (pc'[c] = "begin" <=> LineAt(c) = Len(items'[c]))]_vars

\* C17 witness: a call was refused at its second line, for a quantity above
\* the stock, after a valid first line
C17_Witness ==
  \E c \in Calls :
    pc[c] = "done" /\ result[c] = "insufficient_stock" /\ idx[c] = 2

\* C18: the stored total of every committed order is the sum, over its lines,
\* of quantity times the stored line price, whatever has happened to the order
\* or to the catalog since
C18_TotalIsLineSum ==
  \A id \in DOMAIN orders :
    orders[id].totalPrice = LineTotal(orders[id].orderItems)

\* an order of more than one unit that was paid and then shipped
C18_Witness ==
  \E id \in DOMAIN orders :
    /\ orders[id].status = "shipped"
    /\ orders[id].paymentURL # NoURL
    /\ \/ Len(orders[id].orderItems) > 1
       \/ orders[id].orderItems[1].quantity > 1

\* C19: a line is priced at the book's price as the call read it, the order is
\* stored with these lines, and nothing changes the lines or the total of a
\* stored order afterwards, a later change of the book's price included
C19_PriceSnapshot ==
  [][/\ \A c \in Calls :
          Len(orderItems'[c]) = Len(orderItems[c]) + 1 =>
            orderItems'[c][LineAt(c)].price =
              books[items'[c][LineAt(c)].bookID].price
     /\ \A id \in DOMAIN orders' \ DOMAIN orders :
          \E c \in Calls : /\ pc[c] = "commit"
                           /\ orders'[id].orderItems = orderItems[c]
                           /\ orders'[id].totalPrice = totalAmount[c]
     /\ \A id \in DOMAIN orders :
          /\ id \in DOMAIN orders'
          /\ orders'[id].orderItems = orders[id].orderItems
          /\ orders'[id].totalPrice = orders[id].totalPrice]_vars

\* a stored line whose price is no longer the price of its book
C19_Witness ==
  \E id \in DOMAIN orders :
    \E i \in 1 .. Len(orders[id].orderItems) :
      orders[id].orderItems[i].price
        # books[orders[id].orderItems[i].bookID].price

\* C20: a call of UpdateOrderStatus changes an order only when its token is the
\* admin's and the status asked for is one of the five; a call with any other
\* token, whatever the status, and a call of the admin with another status
\* return an error and change no order
C20_StatusNeedsAdminAndValid ==
  [][\A id \in LifeCalls, tok \in Tokens,
        status \in ValidStatuses \cup {"bogus"}, o \in Outcomes :
       UpdateOrderStatus(id, status, tok, o) =>
         /\ orders' # orders => tok = "admin" /\ status \in ValidStatuses
         /\ tok # "admin" =>
              /\ statusResult' \in {"unauthorized", "access_denied"}
              /\ orders' = orders
         /\ (tok = "admin" /\ status \notin ValidStatuses) =>
              /\ statusResult' = "invalid_status"
              /\ orders' = orders]_vars

\* an order the admin shipped stays shipped after a customer's call was refused
C20_Witness ==
  /\ 1 \in DOMAIN orders
  /\ orders[1].status = "shipped"
  /\ statusResult = "access_denied"

\* C21: no order is ever deleted, and the owner, the lines with their
\* quantities and prices, and the total price of an order stay as they were
\* when the order was created, whatever UpdateOrderStatus and ProcessPayment do
C21_OrdersKeptAsCreated ==
  [][/\ DOMAIN orders \subseteq DOMAIN orders'
     /\ \A id \in DOMAIN orders :
          /\ orders'[id].userID = orders[id].userID
          /\ orders'[id].orderItems = orders[id].orderItems
          /\ orders'[id].totalPrice = orders[id].totalPrice]_vars

\* an order that was paid and then completed by the admin, as its owner
\* created it
C21_Witness ==
  \E id \in DOMAIN orders :
    /\ orders[id].status = "completed"
    /\ orders[id].paymentURL # NoURL
    /\ orders[id].userID = UserOf("alice")
    /\ orders[id].totalPrice = Price(1)

\* the book of the line call c is at in the loop of the transaction function
BookAt(c) == items[c][idx[c]].bookID

\* call c is inside the read-check-write section of lines 126-150: it has read
\* the stock of its line under the mutex and has not yet written the new value
InSection(c) == pc[c] = "update"

\* the books of the lines of call c
BooksOf(c) == {items[c][i].bookID : i \in 1 .. Len(items[c])}

\* C22: at any time at most one CreateOrder call is inside the
\* read-check-write section for a given book
C22_OneCallInSection ==
  \A b \in Books :
    Cardinality({c \in Calls : InSection(c) /\ BookAt(c) = b}) <= 1

\* one call is inside the section for a book while another call, about to
\* read the same book, waits for the mutex
C22_Witness ==
  \E c, d \in Calls :
    /\ InSection(c) /\ stockMutex = c
    /\ pc[d] = "lock" /\ BookAt(d) = BookAt(c)

\* C23: while a call is inside its section for one book, another call whose
\* lines are all for other books can go through the read and the check of its
\* own line
C23_DisjointCallsIndependent ==
  \A c, d \in Calls :
    (/\ c # d
     /\ InSection(c)
     /\ pc[d] = "lock"
     /\ BooksOf(c) \cap BooksOf(d) = {})
      => ENABLED LockGetByID(d, "ok")

\* call c holds the stock mutex and its UPDATE of line 143 waits for the row
\* lock of its book, which the open transaction of call d holds, while d waits
\* for the stock mutex at line 126
MutexRowLockCycle(c, d) ==
  /\ c # d
  /\ stockMutex = c /\ InSection(c)
  /\ d \in BookLockHolders(BookAt(c))
  /\ pc[d] = "lock"

\* C24: no state is reachable in which one call holds the stock mutex while
\* blocked on a row lock whose holder is waiting for the stock mutex
C24_NoMutexRowLockCycle ==
  \A c, d \in Calls : ~MutexRowLockCycle(c, d)

\* no CreateOrder call is in flight
Quiescent == \A c \in Calls : pc[c] \in {"idle", "done"}

\* C25: stock conservation. With no CreateOrder in flight, for every book the
\* stock it started with is its committed stock plus its quantities over all
\* committed order lines (over orders without duplicate lines; CreateOrder is
\* the only writer of stock here)
C25_StockConserved ==
  (Quiescent /\ DistinctLines) =>
    \A b \in Books : stock0[b] = books[b].stock + Sold(b)

\* call c commits an order of two lines for the same book
CommitsDuplicate(c) ==
  /\ pc[c] = "commit" /\ pc'[c] = "done"
  /\ orderID[c] \notin DOMAIN orders /\ orderID[c] \in DOMAIN orders'
  /\ Len(orderItems[c]) = 2
  /\ orderItems[c][1].bookID = orderItems[c][2].bookID

\* C26: two lines for the same book with quantities q1 and q2 count as
\* independent lines for stock too: an order with them is committed only when
\* q1 + q2 is within the stock, and its commit reduces the book's committed
\* stock by q1 + q2
C26_DuplicateLinesBothCount ==
  [][\A c \in Calls :
       CommitsDuplicate(c) =>
         LET b == orderItems[c][1].bookID
             q == orderItems[c][1].quantity + orderItems[c][2].quantity
         IN /\ q <= books[b].stock
            /\ books'[b].stock = books[b].stock - q]_vars

\* the ProcessPayment calls on order id that made their gateway request and
\* returned its payment URL
PaidCalls(id) ==
  {p \in Payers : payOrder[p] = id /\ payResult[p] = "ok" /\ gateway[p] = "ok"}

\* C27: of the concurrent ProcessPayment calls by the owner on the same
\* pending order, at most one makes the gateway request and returns a payment
\* URL (no UpdateOrderStatus call has put the order back to pending: none has
\* been made)
C27_OnePaymentPerPendingOrder ==
  statusResult = "none" =>
    \A id \in DOMAIN orders : Cardinality(PaidCalls(id)) <= 1

\* C28: the status 'processing' that the commit of a ProcessPayment call
\* writes always replaces a committed status of 'pending' (the call is the
\* only ProcessPayment call made, so only UpdateOrderStatus can have changed
\* the status since the call read it)
C28_ProcessingReplacesPending ==
  [][\A p \in Payers, id \in DOMAIN orders :
       (/\ PayCommitted(p, id)
        /\ "status" \in payTx[p]
        /\ \A q \in Payers \ {p} : payPc[q] = "idle")
         => orders[id].status = "pending"]_vars

\* C29: in the half-open state the breaker lets in at most 3 probe calls; a
\* call that starts once 3 were let in is turned away with the error 'payment
\* service is busy', the gateway is not contacted and the breaker is left as
\* it was; a call that starts before that is let in and counted
C29_HalfOpenAdmitsThree ==
  [][/\ cbState' = "half-open" => cbCounts'.requests <= 3
     /\ \A k \in Gates :
          (cbState = "half-open" /\ Starts(k)) =>
            IF cbCounts.requests >= 3
              THEN /\ gateCall'[k].pc = "idle"
                   /\ gateCall'[k].result = "payment_busy"
                   /\ ~gateCall'[k].contacted
                   /\ cbState' = cbState /\ cbCounts' = cbCounts
              ELSE /\ gateCall'[k].pc = "remote"
                   /\ gateCall'[k].contacted
                   /\ cbCounts'.requests = cbCounts.requests + 1]_vars

\* the breaker is half-open with 3 probes let in, one of them still at the
\* gateway, and a further call was turned away as busy
C29_Witness ==
  /\ cbState = "half-open" /\ cbCounts.requests = 3
  /\ \E k \in Gates : gateCall[k].pc = "remote" /\ ~gateCall[k].stale
  /\ \E k \in Gates :
       /\ gateCall[k].pc = "idle"
       /\ gateCall[k].result = "payment_busy"
       /\ ~gateCall[k].contacted

\* C30: a CreateOrder call whose reload of the committed order fails returns
\* the error to its caller: no call ends in the run-time panic of a nil
\* dereference
C30_ReloadErrorReturned ==
  \A c \in Calls : pc[c] = "done" => result[c] # "panic"

====
